---- MODULE Spec2Model ----
(***************************************************************************)
(* Model of the image-to-URL backend (backend/server.py): the upload       *)
(* validator, the Hamming distance of two hash codes, and the link, scan   *)
(* and delete request handlers running against one MongoDB collection.     *)
(* A handler is split at its awaits on the store: the code between two     *)
(* awaits runs atomically on the event loop, requests interleave at the    *)
(* awaits.                                                                 *)
(***************************************************************************)
EXTENDS Integers, Sequences, FiniteSets, TLC

(***************************************************************************)
(* Bounds of the model.                                                    *)
(***************************************************************************)
MaxCalls == 3          \* requests started in one behaviour
MaxLinks == 2          \* link requests among them
MaxScans == 1          \* scan requests among them
MaxDeletes == 2        \* delete requests among them
NumProcs == 2          \* requests that can be in flight at the same time
MaxLen == 2            \* characters of the short hash codes handed to calculate_similarity

Procs == 1..NumProcs

(***************************************************************************)
(* ImageProcessor.__init__                                                 *)
(***************************************************************************)
max_dimension == 2048
hash_size == 8
max_file_size == 10 * 1024 * 1024
allowed_mime_types == {"image/jpeg", "image/png", "image/gif", "image/bmp", "image/webp"}

\* length of str(imagehash.ImageHash) for hash_size 8: 64 bits, 4 per character
HashChars == (hash_size * hash_size) \div 4

\* the four algorithms, in the order scan_image_for_url tries them
Algorithms == <<"dhash", "phash", "ahash", "whash">>

\* db.image_links.find({}).to_list(1000)
to_list_length == 1000

(***************************************************************************)
(* Strings are sequences of one-character strings.                         *)
(***************************************************************************)
RECURSIVE Rep(_, _)
Rep(c, n) == IF n <= 0 THEN <<>> ELSE <<c>> \o Rep(c, n - 1)

HexDigits == {"0", "1", "2", "3", "4", "5", "6", "7", "8", "9",
              "a", "b", "c", "d", "e", "f", "A", "B", "C", "D", "E", "F"}

HexVal(c) ==
    CASE c = "0" -> 0 [] c = "1" -> 1 [] c = "2" -> 2 [] c = "3" -> 3
      [] c = "4" -> 4 [] c = "5" -> 5 [] c = "6" -> 6 [] c = "7" -> 7
      [] c = "8" -> 8 [] c = "9" -> 9
      [] c \in {"a", "A"} -> 10 [] c \in {"b", "B"} -> 11
      [] c \in {"c", "C"} -> 12 [] c \in {"d", "D"} -> 13
      [] c \in {"e", "E"} -> 14 [] c \in {"f", "F"} -> 15

Whitespace == {" "}

RECURSIVE LStrip(_)
LStrip(s) == IF s # <<>> /\ Head(s) \in Whitespace THEN LStrip(Tail(s)) ELSE s

RECURSIVE RStrip(_)
RStrip(s) ==
    IF s # <<>> /\ s[Len(s)] \in Whitespace
    THEN RStrip(SubSeq(s, 1, Len(s) - 1)) ELSE s

\* digits of a literal body, from position i on: hex digits, single underscores
\* only between digits
RECURSIVE DigitsOk(_, _, _)
DigitsOk(s, i, prevDigit) ==
    IF i > Len(s) THEN prevDigit
    ELSE IF s[i] \in HexDigits THEN DigitsOk(s, i + 1, TRUE)
    ELSE IF s[i] = "_" THEN prevDigit /\ DigitsOk(s, i + 1, FALSE)
    ELSE FALSE

NotUnderscore(c) == c # "_"

DropUnderscores(s) == SelectSeq(s, NotUnderscore)

(***************************************************************************)
(* int(s, 16): surrounding whitespace, one optional sign, an optional 0x   *)
(* prefix (an underscore may follow it), then the digits.  The value is    *)
(* kept as its sign and its hexadecimal digits: Python integers are       *)
(* unbounded, a 64-bit code does not fit a 32-bit integer.                 *)
(***************************************************************************)
int16_digits(w, neg) ==
    IF w # <<>> /\ Head(w) # "_" /\ DigitsOk(w, 1, FALSE)
    THEN [ValueError |-> FALSE, neg |-> neg, digits |-> DropUnderscores(w)]
    ELSE [ValueError |-> TRUE, neg |-> FALSE, digits |-> <<>>]

int16_prefix(u, neg) ==
    IF Len(u) >= 2 /\ u[1] = "0" /\ u[2] \in {"x", "X"}
    THEN IF Len(u) >= 3 /\ u[3] = "_"
         THEN int16_digits(SubSeq(u, 4, Len(u)), neg)
         ELSE int16_digits(SubSeq(u, 3, Len(u)), neg)
    ELSE int16_digits(u, neg)

int16_sign(t) ==
    IF t # <<>> /\ Head(t) \in {"+", "-"}
    THEN int16_prefix(Tail(t), Head(t) = "-")
    ELSE int16_prefix(t, FALSE)

int16(s) == int16_sign(RStrip(LStrip(s)))

Nibble(d) ==
    <<IF (d \div 8) % 2 = 1 THEN "1" ELSE "0",
      IF (d \div 4) % 2 = 1 THEN "1" ELSE "0",
      IF (d \div 2) % 2 = 1 THEN "1" ELSE "0",
      IF d % 2 = 1 THEN "1" ELSE "0">>

RECURSIVE Bits(_)
Bits(ds) == IF ds = <<>> THEN <<>> ELSE Nibble(HexVal(Head(ds))) \o Bits(Tail(ds))

RECURSIVE StripZeros(_)
StripZeros(b) == IF b # <<>> /\ Head(b) = "0" THEN StripZeros(Tail(b)) ELSE b

MinOf(S) == CHOOSE x \in S : \A y \in S : x <= y

\* bin(n)[2:]: "0b101" gives "101"; for n < 0, "-0b101" gives "b101"
bin2_of(m, neg) ==
    IF m = <<>> THEN <<"0">>
    ELSE IF neg THEN <<"b">> \o m ELSE m

bin2(n) == bin2_of(StripZeros(Bits(n.digits)), n.neg)

\* no padding at all: the binary strings keep the length bin() gave them
zfill_none(s, width) == s

\* str.zfill(width): zeros on the left, after a leading sign character
zfill(s, width) ==
    IF Len(s) >= width THEN s
    ELSE IF s # <<>> /\ Head(s) \in {"+", "-"}
         THEN <<Head(s)>> \o Rep("0", width - Len(s)) \o Tail(s)
         ELSE Rep("0", width - Len(s)) \o s

Min2(a, b) == IF a <= b THEN a ELSE b
Max2(a, b) == IF a >= b THEN a ELSE b

\* sum(b1 != b2 for b1, b2 in zip(bin1, bin2)), from position i on
RECURSIVE CountDiff(_, _, _)
CountDiff(b1, b2, i) ==
    IF i > Len(b1) \/ i > Len(b2) THEN 0
    ELSE (IF b1[i] # b2[i] THEN 1 ELSE 0) + CountDiff(b1, b2, i + 1)

\* a failed conversion reported as the bit-length of the code instead of 64
hamming_sentinel_bits(n1, n2, len1, len2) ==
    IF n1.ValueError \/ n2.ValueError THEN len1 * 4
    ELSE CountDiff(zfill(bin2(n1), len1 * 4), zfill(bin2(n2), len2 * 4), 1)

\* lines 113-118, given the two int(.., 16) results
hamming(n1, n2, len1, len2) ==
    IF n1.ValueError \/ n2.ValueError THEN 64
    ELSE CountDiff(zfill(bin2(n1), len1 * 4), zfill(bin2(n2), len2 * 4), 1)

\* the length check rejecting only a longer first code
calculate_similarity_longer_first(hash1, hash2) ==
    IF Len(hash1) > Len(hash2) THEN 64
    ELSE hamming(int16(hash1), int16(hash2), Len(hash1), Len(hash2))

calculate_similarity(hash1, hash2) ==
    IF Len(hash1) # Len(hash2) THEN 64
    ELSE hamming(int16(hash1), int16(hash2), Len(hash1), Len(hash2))

(***************************************************************************)
(* The uploads the clients send.  What libmagic, PIL, imagehash and        *)
(* hashlib.sha256 make of an upload is a property of its bytes, given here *)
(* as a table: bytes are named by their SHA-256 digest (distinct bytes,    *)
(* distinct digests), the perceptual hashes are 16 hexadecimal characters. *)
(***************************************************************************)
HashesA == [dhash |-> "ffffffffffffffff", phash |-> "aaaaaaaaaaaaaaaa",
            ahash |-> "3333333333333333", whash |-> "0000000000000000"]

\* 1 bit from HashesA on dhash, 2 on phash, 64 on ahash, 3 on whash
HashesC == [dhash |-> "efffffffffffffff", phash |-> "9aaaaaaaaaaaaaaa",
            ahash |-> "cccccccccccccccc", whash |-> "7000000000000000"]

\* 16 bits from HashesA on dhash, 64 on phash, 12 on ahash, 16 on whash;
\* 15, 62, 52 and 19 bits from HashesC
HashesD == [dhash |-> "0000ffffffffffff", phash |-> "5555555555555555",
            ahash |-> "33333333333ccc33", whash |-> "000000000000ffff"]

NoHashes == [dhash |-> "", phash |-> "", ahash |-> "", whash |-> ""]

\* the characters of the hash codes above
Chars(h) ==
    CASE h = "ffffffffffffffff" -> Rep("f", HashChars)
      [] h = "aaaaaaaaaaaaaaaa" -> Rep("a", HashChars)
      [] h = "3333333333333333" -> Rep("3", HashChars)
      [] h = "0000000000000000" -> Rep("0", HashChars)
      [] h = "efffffffffffffff" -> <<"e">> \o Rep("f", HashChars - 1)
      [] h = "9aaaaaaaaaaaaaaa" -> <<"9">> \o Rep("a", HashChars - 1)
      [] h = "cccccccccccccccc" -> Rep("c", HashChars)
      [] h = "7000000000000000" -> <<"7">> \o Rep("0", HashChars - 1)
      [] h = "0000ffffffffffff" -> Rep("0", 4) \o Rep("f", HashChars - 4)
      [] h = "5555555555555555" -> Rep("5", HashChars)
      [] h = "33333333333ccc33" -> Rep("3", HashChars - 5) \o Rep("c", 3) \o Rep("3", 2)
      [] h = "000000000000ffff" -> Rep("0", HashChars - 4) \o Rep("f", 4)
      [] h = "" -> <<>>

Uploads ==
    [A |-> [filename |-> "a.png", len |-> 2048, mime |-> "image/png", decodes |-> TRUE,
            mode |-> "RGB", size |-> <<64, 48>>, hashes |-> HashesA, sha256 |-> "sha-A"],
     \* other bytes, same picture: every perceptual hash equals that of A
     B |-> [filename |-> "", len |-> 4096, mime |-> "image/jpeg", decodes |-> TRUE,
            mode |-> "L", size |-> <<64, 48>>, hashes |-> HashesA, sha256 |-> "sha-B"],
     \* exactly at the size ceiling, wider than max_dimension
     C |-> [filename |-> "c.bmp", len |-> max_file_size, mime |-> "image/bmp", decodes |-> TRUE,
            mode |-> "RGB", size |-> <<4096, 1024>>, hashes |-> HashesC, sha256 |-> "sha-C"],
     \* another picture: no hash code within 10 bits of those of A or C
     D |-> [filename |-> "d.gif", len |-> 512, mime |-> "image/gif", decodes |-> TRUE,
            mode |-> "P", size |-> <<32, 32>>, hashes |-> HashesD, sha256 |-> "sha-D"],
     \* not an image
     T |-> [filename |-> "t.txt", len |-> 12, mime |-> "text/plain", decodes |-> FALSE,
            mode |-> "", size |-> <<0, 0>>, hashes |-> NoHashes, sha256 |-> "sha-T"],
     \* PNG signature, truncated data
     K |-> [filename |-> "k.png", len |-> 64, mime |-> "image/png", decodes |-> FALSE,
            mode |-> "", size |-> <<0, 0>>, hashes |-> NoHashes, sha256 |-> "sha-K"],
     \* garbage over the ceiling
     G |-> [filename |-> "g.bin", len |-> max_file_size + 1, mime |-> "application/octet-stream",
            decodes |-> FALSE, mode |-> "", size |-> <<0, 0>>, hashes |-> NoHashes,
            sha256 |-> "sha-G"]]

UploadNames == DOMAIN Uploads

Urls == {"u1", "u2"}

Thresholds == {-1, 0, 1000}

\* image ids a delete request can name
ImageIds == 1..MaxCalls

\* Image.thumbnail((max_dimension, max_dimension)): the longer side becomes
\* max_dimension, the other side keeps the aspect ratio, never below 1
thumbnail(size) ==
    LET w == size[1]
        h == size[2]
        scaled(short, long) == Max2(1, (2 * short * max_dimension + long) \div (2 * long))
    IN  IF w >= h THEN <<max_dimension, scaled(h, w)>>
        ELSE <<scaled(w, h), max_dimension>>

\* ImageProcessor.compute_hashes: str() of the four imagehash values
compute_hashes(f) ==
    [ahash |-> Uploads[f].hashes.ahash, phash |-> Uploads[f].hashes.phash,
     dhash |-> Uploads[f].hashes.dhash, whash |-> Uploads[f].hashes.whash]

HTTPException(code, detail, steps) ==
    [ok |-> FALSE, http |-> TRUE, status_code |-> code, detail |-> detail, steps |-> steps,
     hashes |-> NoHashes, file_hash |-> "", content_type |-> "", file_size |-> 0,
     image_size |-> <<0, 0>>]

\* the size check with >= in place of >
validate_size_inclusive(f) ==
    LET u == Uploads[f]
    IN  IF u.len >= max_file_size
        THEN HTTPException(413, "File too large (max 10MB)", <<"size">>)
        ELSE IF u.mime \notin allowed_mime_types
        THEN HTTPException(400, "Unable to determine file type", <<"size", "sniff">>)
        ELSE IF ~u.decodes
        THEN HTTPException(400, "Invalid image file", <<"size", "sniff", "decode">>)
        ELSE [ok |-> TRUE, http |-> FALSE, status_code |-> 200, detail |-> "",
              steps |-> <<"size", "sniff", "decode", "hashes", "sha256">>,
              hashes |-> compute_hashes(f),
              file_hash |-> u.sha256,
              content_type |-> u.mime,
              file_size |-> u.len,
              image_size |-> IF Max2(u.size[1], u.size[2]) > max_dimension
                             THEN thumbnail(u.size) ELSE u.size]

(***************************************************************************)
(* ImageProcessor.validate_and_process_image.  steps lists the checks that *)
(* ran, in order.  The HTTPException of the type check is raised inside    *)
(* the try block and replaced by the one of its except clause.             *)
(***************************************************************************)
validate_and_process_image(f) ==
    LET u == Uploads[f]
    IN  IF u.len > max_file_size
        THEN HTTPException(413, "File too large (max 10MB)", <<"size">>)
        ELSE IF u.mime \notin allowed_mime_types
        THEN HTTPException(400, "Unable to determine file type", <<"size", "sniff">>)
        ELSE IF ~u.decodes
        THEN HTTPException(400, "Invalid image file", <<"size", "sniff", "decode">>)
        ELSE [ok |-> TRUE, http |-> FALSE, status_code |-> 200, detail |-> "",
              steps |-> <<"size", "sniff", "decode", "hashes", "sha256">>,
              hashes |-> compute_hashes(f),
              file_hash |-> u.sha256,
              content_type |-> u.mime,
              file_size |-> u.len,
              image_size |-> IF Max2(u.size[1], u.size[2]) > max_dimension
                             THEN thumbnail(u.size) ELSE u.size]

(***************************************************************************)
(* State.                                                                  *)
(***************************************************************************)
VARIABLES
    store,      \* db.image_links: the documents, in the order find({}) returns them
    pc,         \* per request slot: "idle", the await it stands at, or "done"
    req,        \* per slot: the request being served
    loc,        \* per slot: locals of link_image_to_url across its awaits
    ops,        \* per slot: what the call has done so far (checks run, store effects)
    resp,       \* per slot: the response, once pc is "done"
    last,       \* the call a sequential client completed most recently
    nextId,     \* uuid.uuid4(): ids are fresh, numbered in order of creation
    clock,      \* datetime.utcnow(): strictly increasing readings
    calls,      \* requests started so far, per kind
    sim         \* a call of calculate_similarity on its own: arguments and results

vars == <<store, pc, req, loc, ops, resp, last, nextId, clock, calls, sim>>

NoReq == [op |-> "", upload |-> "", url |-> "", threshold |-> 0, image_id |-> 0]

NoDoc == [id |-> 0, filename |-> "", url |-> "", file_hash |-> "",
          ahash |-> "", phash |-> "", dhash |-> "", whash |-> "",
          content_type |-> "", file_size |-> 0, image_width |-> 0, image_height |-> 0,
          created_at |-> 0, updated_at |-> 0]

NoLoc == [existing |-> NoDoc, image_link |-> NoDoc, updated_at |-> 0]

\* present: the documents holding the upload's checksum when the request arrived;
\* steps: checks of the validator that ran; finds, inserted, modified, deleted:
\* store operations issued and the documents they changed; doc: the document inserted
NoOps == [present |-> 0, steps |-> <<>>, finds |-> 0, inserted |-> 0, modified |-> 0,
          deleted |-> 0, doc |-> NoDoc]

NoMatch == [id |-> 0, filename |-> "", url |-> "", distance |-> 0,
            similarity_percentage |-> 0, algorithm_used |-> "", created_at |-> 0]

NoResp == [status_code |-> 0, status |-> "", detail |-> "", image_id |-> 0, url |-> "",
           match |-> NoMatch, redirect_url |-> "", total_stored_images |-> -1]

\* urls: per checksum, the url of the client's most recent successful link call
NoLast == [req |-> NoReq, resp |-> NoResp, ops |-> NoOps,
           urls |-> [h \in {Uploads[f].sha256 : f \in UploadNames} |-> ""]]

\* distance, reverse: -1 until the call has returned
NoSim == [hash1 |-> <<>>, hash2 |-> <<>>, distance |-> -1, reverse |-> -1]

\* a request that arrives is served in the first free slot
FirstIdle(p) == pc[p] = "idle" /\ \A q \in 1..(p - 1) : pc[q] # "idle"

Started == calls.link + calls.scan + calls.delete

Init ==
    /\ store = <<>>
    /\ pc = [p \in Procs |-> "idle"]
    /\ req = [p \in Procs |-> NoReq]
    /\ loc = [p \in Procs |-> NoLoc]
    /\ ops = [p \in Procs |-> NoOps]
    /\ resp = [p \in Procs |-> NoResp]
    /\ last = NoLast
    /\ nextId = 1
    /\ clock = 1
    /\ calls = [link |-> 0, scan |-> 0, delete |-> 0]
    /\ sim = NoSim

(***************************************************************************)
(* The collection.                                                         *)
(***************************************************************************)
Matching(docs, field, value) == {i \in 1..Len(docs) : docs[i][field] = value}

\* find_one({field: value}): the first matching document, or None
find_one(docs, field, value) ==
    IF Matching(docs, field, value) = {} THEN NoDoc
    ELSE docs[MinOf(Matching(docs, field, value))]

\* an update whose $set leaves the url out
update_one_without_url(docs, h, url, now) ==
    IF Matching(docs, "file_hash", h) = {} THEN docs
    ELSE [docs EXCEPT ![MinOf(Matching(docs, "file_hash", h))] =
              [@ EXCEPT !.updated_at = now]]

\* an update whose $set also carries the name and the creation time of the new upload
update_one_refreshing(docs, h, url, now) ==
    IF Matching(docs, "file_hash", h) = {} THEN docs
    ELSE [docs EXCEPT ![MinOf(Matching(docs, "file_hash", h))] =
              [@ EXCEPT !.url = url, !.updated_at = now, !.created_at = now]]

\* update_one({"file_hash": h}, {"$set": {...}}): the first matching document
update_one(docs, h, url, now) ==
    IF Matching(docs, "file_hash", h) = {} THEN docs
    ELSE [docs EXCEPT ![MinOf(Matching(docs, "file_hash", h))] =
              [@ EXCEPT !.url = url, !.updated_at = now]]

\* a delete whose filter names a field no document has: nothing matches
delete_one_wrong_field(docs, image_id) == docs

\* delete_one({"id": image_id}): the first matching document
delete_one(docs, image_id) ==
    IF Matching(docs, "id", image_id) = {} THEN docs
    ELSE LET i == MinOf(Matching(docs, "id", image_id))
         IN  SubSeq(docs, 1, i - 1) \o SubSeq(docs, i + 1, Len(docs))

\* find({}).to_list(1000)
to_list(docs, length) == SubSeq(docs, 1, Min2(Len(docs), length))

\* a handler without its "except HTTPException: raise" clause
handler_except_all(e) ==
    [NoResp EXCEPT !.status_code = 500, !.status = "error",
                   !.detail = "Internal server error"]

(***************************************************************************)
(* The except clauses of the handlers: an HTTPException is re-raised as it *)
(* is, anything else becomes a 500.                                        *)
(***************************************************************************)
handler_except(e) ==
    IF e.http
    THEN [NoResp EXCEPT !.status_code = e.status_code, !.status = "error",
                        !.detail = e.detail]
    ELSE [NoResp EXCEPT !.status_code = 500, !.status = "error",
                        !.detail = "Internal server error"]

\* ImageLink(...): id and created_at come from the default factories
ImageLink(f, url, id, now) ==
    LET result == validate_and_process_image(f)
    IN  [id |-> id,
         filename |-> IF Uploads[f].filename = "" THEN "unknown" ELSE Uploads[f].filename,
         url |-> url,
         file_hash |-> result.file_hash,
         ahash |-> result.hashes.ahash, phash |-> result.hashes.phash,
         dhash |-> result.hashes.dhash, whash |-> result.hashes.whash,
         content_type |-> result.content_type,
         file_size |-> result.file_size,
         image_width |-> result.image_size[1],
         image_height |-> result.image_size[2],
         created_at |-> now,
         updated_at |-> 0]

(***************************************************************************)
(* scan_image_for_url, lines 219-265: the scan over the fetched documents. *)
(***************************************************************************)
AlgorithmSet == {Algorithms[i] : i \in 1..Len(Algorithms)}

\* distances[algorithm] for one stored image; every document and every query
\* carries the four hash codes, so the dictionary has the four keys
distances(query_hashes, stored_image) ==
    [dhash |-> calculate_similarity(Chars(query_hashes.dhash), Chars(stored_image.dhash)),
     phash |-> calculate_similarity(Chars(query_hashes.phash), Chars(stored_image.phash)),
     ahash |-> calculate_similarity(Chars(query_hashes.ahash), Chars(stored_image.ahash)),
     whash |-> calculate_similarity(Chars(query_hashes.whash), Chars(stored_image.whash))]

\* min(distances.values())
min_distance(d) == MinOf({d[a] : a \in AlgorithmSet})

\* min(distances, key=distances.get): the first key, in insertion order, at the minimum
algorithm_used(d) ==
    Algorithms[MinOf({i \in 1..Len(Algorithms) : d[Algorithms[i]] = min_distance(d)})]

\* best_distance = float('inf')
Inf == [inf |-> TRUE, v |-> 0]

\* min_distance <= best_distance: the last of several equal candidates wins
LessOrEqual(d, best_distance) == best_distance.inf \/ d <= best_distance.v

\* min_distance < best_distance
LessThan(d, best_distance) == best_distance.inf \/ d < best_distance.v

\* min_distance < threshold: the threshold itself excluded
ImprovesStrictly(d, threshold, best_distance) ==
    d < threshold /\ LessThan(d, best_distance)

\* min_distance <= threshold and min_distance < best_distance
Improves(d, threshold, best_distance) ==
    d <= threshold /\ LessThan(d, best_distance)

\* the similarity score without its floor at 0
scan_update_unclamped(best, stored_image, d, threshold) ==
    IF Improves(min_distance(d), threshold, best.best_distance)
    THEN [best_distance |-> [inf |-> FALSE, v |-> min_distance(d)],
          found |-> TRUE,
          best_match |->
              [id |-> stored_image.id,
               filename |-> stored_image.filename,
               url |-> stored_image.url,
               distance |-> min_distance(d),
               similarity_percentage |-> 100 - (min_distance(d) * 10),
               algorithm_used |-> algorithm_used(d),
               created_at |-> stored_image.created_at]]
    ELSE best

\* lines 233-247, given the distances of one stored image
scan_update(best, stored_image, d, threshold) ==
    IF Improves(min_distance(d), threshold, best.best_distance)
    THEN [best_distance |-> [inf |-> FALSE, v |-> min_distance(d)],
          found |-> TRUE,
          best_match |->
              [id |-> stored_image.id,
               filename |-> stored_image.filename,
               url |-> stored_image.url,
               distance |-> min_distance(d),
               similarity_percentage |-> Max2(0, 100 - (min_distance(d) * 10)),
               algorithm_used |-> algorithm_used(d),
               created_at |-> stored_image.created_at]]
    ELSE best

\* the body of the for loop for one stored image
scan_step(best, stored_image, query_hashes, threshold) ==
    scan_update(best, stored_image, distances(query_hashes, stored_image), threshold)

\* the loop going through the fetched documents from the last to the first
RECURSIVE scan_loop_reversed(_, _, _, _, _)
scan_loop_reversed(best, stored_images, i, query_hashes, threshold) ==
    IF i > Len(stored_images) THEN best
    ELSE scan_loop_reversed(scan_step(best, stored_images[Len(stored_images) - i + 1],
                                      query_hashes, threshold),
                            stored_images, i + 1, query_hashes, threshold)

RECURSIVE scan_loop(_, _, _, _, _)
scan_loop(best, stored_images, i, query_hashes, threshold) ==
    IF i > Len(stored_images) THEN best
    ELSE scan_loop(scan_step(best, stored_images[i], query_hashes, threshold),
                   stored_images, i + 1, query_hashes, threshold)

\* a response that counts the matches instead of the stored images
scan_return_counting_matches(best, stored_images) ==
    IF best.found
    THEN [NoResp EXCEPT !.status_code = 200, !.status = "match_found",
                        !.match = best.best_match,
                        !.redirect_url = best.best_match.url,
                        !.total_stored_images = 1]
    ELSE [NoResp EXCEPT !.status_code = 200, !.status = "no_match",
                        !.total_stored_images = -1]

\* lines 249-265: the response, given the outcome of the loop
scan_return(best, stored_images) ==
    IF best.found
    THEN [NoResp EXCEPT !.status_code = 200, !.status = "match_found",
                        !.match = best.best_match,
                        !.redirect_url = best.best_match.url,
                        !.total_stored_images = Len(stored_images)]
    ELSE [NoResp EXCEPT !.status_code = 200, !.status = "no_match",
                        !.total_stored_images = Len(stored_images)]

\* lines 219-265: the response of scan_image_for_url for the documents it fetched
scan_response(stored_images, query_hashes, threshold) ==
    scan_return(scan_loop([best_distance |-> Inf, found |-> FALSE, best_match |-> NoMatch],
                          stored_images, 1, query_hashes, threshold),
                stored_images)

(***************************************************************************)
(* link_image_to_url                                                       *)
(***************************************************************************)
\* lines 154-156: the upload is read and validated
link_validate(p, f, u) ==
    /\ FirstIdle(p)
    /\ Started < MaxCalls /\ calls.link < MaxLinks
    /\ calls' = [calls EXCEPT !.link = @ + 1]
    /\ req' = [req EXCEPT ![p] = [NoReq EXCEPT !.op = "link", !.upload = f, !.url = u]]
    /\ LET result == validate_and_process_image(f)
       IN  /\ ops' = [ops EXCEPT ![p] = [NoOps EXCEPT
                   !.present = Cardinality(Matching(store, "file_hash", Uploads[f].sha256)),
                   !.steps = result.steps]]
           /\ IF result.ok
              THEN /\ pc' = [pc EXCEPT ![p] = "link_find_one"]
                   /\ resp' = [resp EXCEPT ![p] = NoResp]
              ELSE /\ pc' = [pc EXCEPT ![p] = "done"]
                   /\ resp' = [resp EXCEPT ![p] = handler_except(result)]
    /\ UNCHANGED <<store, loc, last, nextId, clock, sim>>

\* lines 159-186: find_one returns; either the $set of the update is built,
\* or the new ImageLink is, and the write is awaited
link_find_one(p) ==
    /\ pc[p] = "link_find_one"
    /\ LET result == validate_and_process_image(req[p].upload)
           existing == find_one(store, "file_hash", result.file_hash)
       IN  IF existing # NoDoc
           THEN /\ loc' = [loc EXCEPT ![p] = [NoLoc EXCEPT !.existing = existing,
                                                           !.updated_at = clock]]
                /\ pc' = [pc EXCEPT ![p] = "link_update_one"]
                /\ UNCHANGED nextId
           ELSE /\ loc' = [loc EXCEPT ![p] = [NoLoc EXCEPT !.image_link =
                                ImageLink(req[p].upload, req[p].url, nextId, clock)]]
                /\ pc' = [pc EXCEPT ![p] = "link_insert_one"]
                /\ nextId' = nextId + 1
    /\ clock' = clock + 1
    /\ ops' = [ops EXCEPT ![p].finds = @ + 1]
    /\ UNCHANGED <<store, req, resp, last, calls, sim>>

\* an update that writes back the url read by find_one
link_update_one_stale(p) ==
    /\ pc[p] = "link_update_one"
    /\ LET result == validate_and_process_image(req[p].upload)
       IN  /\ store' = update_one(store, result.file_hash, loc[p].existing.url,
                                  loc[p].updated_at)
           /\ ops' = [ops EXCEPT ![p].modified =
                         @ + (IF Matching(store, "file_hash", result.file_hash) = {}
                              THEN 0 ELSE 1)]
    /\ resp' = [resp EXCEPT ![p] =
                   [NoResp EXCEPT !.status_code = 200, !.status = "updated",
                                  !.image_id = loc[p].existing.id, !.url = req[p].url]]
    /\ pc' = [pc EXCEPT ![p] = "done"]
    /\ UNCHANGED <<req, loc, last, nextId, clock, calls, sim>>

\* lines 162-171: update_one takes effect, the handler returns "updated"
link_update_one(p) ==
    /\ pc[p] = "link_update_one"
    /\ LET result == validate_and_process_image(req[p].upload)
       IN  /\ store' = update_one(store, result.file_hash, req[p].url, loc[p].updated_at)
           /\ ops' = [ops EXCEPT ![p].modified =
                         @ + (IF Matching(store, "file_hash", result.file_hash) = {}
                              THEN 0 ELSE 1)]
    /\ resp' = [resp EXCEPT ![p] =
                   [NoResp EXCEPT !.status_code = 200, !.status = "updated",
                                  !.image_id = loc[p].existing.id, !.url = req[p].url]]
    /\ pc' = [pc EXCEPT ![p] = "done"]
    /\ UNCHANGED <<req, loc, last, nextId, clock, calls, sim>>

\* a collection with a unique index on file_hash: the insert of a second document
\* with a checksum raises DuplicateKeyError, which the handler turns into a 500
link_insert_one_unique(p) ==
    /\ pc[p] = "link_insert_one"
    /\ IF Matching(store, "file_hash", loc[p].image_link.file_hash) = {}
       THEN /\ store' = Append(store, loc[p].image_link)
            /\ ops' = [ops EXCEPT ![p].inserted = @ + 1, ![p].doc = loc[p].image_link]
            /\ resp' = [resp EXCEPT ![p] =
                           [NoResp EXCEPT !.status_code = 200, !.status = "created",
                                          !.image_id = loc[p].image_link.id,
                                          !.url = req[p].url]]
       ELSE /\ store' = store
            /\ ops' = ops
            /\ resp' = [resp EXCEPT ![p] = handler_except([http |-> FALSE])]
    /\ pc' = [pc EXCEPT ![p] = "done"]
    /\ UNCHANGED <<req, loc, last, nextId, clock, calls, sim>>

\* lines 189-197: insert_one takes effect, the handler returns "created"
link_insert_one(p) ==
    /\ pc[p] = "link_insert_one"
    /\ store' = Append(store, loc[p].image_link)
    /\ ops' = [ops EXCEPT ![p].inserted = @ + 1, ![p].doc = loc[p].image_link]
    /\ resp' = [resp EXCEPT ![p] =
                   [NoResp EXCEPT !.status_code = 200, !.status = "created",
                                  !.image_id = loc[p].image_link.id, !.url = req[p].url]]
    /\ pc' = [pc EXCEPT ![p] = "done"]
    /\ UNCHANGED <<req, loc, last, nextId, clock, calls, sim>>

(***************************************************************************)
(* scan_image_for_url                                                      *)
(***************************************************************************)
\* lines 211-214
scan_validate(p, f, t) ==
    /\ FirstIdle(p)
    /\ Started < MaxCalls /\ calls.scan < MaxScans
    /\ calls' = [calls EXCEPT !.scan = @ + 1]
    /\ req' = [req EXCEPT ![p] = [NoReq EXCEPT !.op = "scan", !.upload = f, !.threshold = t]]
    /\ LET result == validate_and_process_image(f)
       IN  /\ ops' = [ops EXCEPT ![p] = [NoOps EXCEPT
                   !.present = Cardinality(Matching(store, "file_hash", Uploads[f].sha256)),
                   !.steps = result.steps]]
           /\ IF result.ok
              THEN /\ pc' = [pc EXCEPT ![p] = "scan_find"]
                   /\ resp' = [resp EXCEPT ![p] = NoResp]
              ELSE /\ pc' = [pc EXCEPT ![p] = "done"]
                   /\ resp' = [resp EXCEPT ![p] = handler_except(result)]
    /\ UNCHANGED <<store, loc, last, nextId, clock, sim>>

\* a scan that stamps the document it matched
scan_find_touching(p) ==
    /\ pc[p] = "scan_find"
    /\ LET result == validate_and_process_image(req[p].upload)
           stored_images == to_list(store, to_list_length)
           r == scan_response(stored_images, result.hashes, req[p].threshold)
       IN  /\ resp' = [resp EXCEPT ![p] = r]
           /\ store' = [i \in 1..Len(store) |->
                           IF store[i].id = r.match.id
                           THEN [store[i] EXCEPT !.updated_at = clock] ELSE store[i]]
    /\ ops' = [ops EXCEPT ![p].finds = @ + 1]
    /\ pc' = [pc EXCEPT ![p] = "done"]
    /\ UNCHANGED <<req, loc, last, nextId, clock, calls, sim>>

\* lines 217-265: the documents arrive, the loop runs, the handler returns
scan_find(p) ==
    /\ pc[p] = "scan_find"
    /\ LET result == validate_and_process_image(req[p].upload)
           stored_images == to_list(store, to_list_length)
       IN  resp' = [resp EXCEPT ![p] =
                       scan_response(stored_images, result.hashes, req[p].threshold)]
    /\ ops' = [ops EXCEPT ![p].finds = @ + 1]
    /\ pc' = [pc EXCEPT ![p] = "done"]
    /\ UNCHANGED <<store, req, loc, last, nextId, clock, calls, sim>>

(***************************************************************************)
(* delete_stored_image, lines 301-316                                      *)
(***************************************************************************)
delete_stored_image(p, image_id) ==
    /\ FirstIdle(p)
    /\ Started < MaxCalls /\ calls.delete < MaxDeletes
    /\ calls' = [calls EXCEPT !.delete = @ + 1]
    /\ req' = [req EXCEPT ![p] = [NoReq EXCEPT !.op = "delete", !.image_id = image_id]]
    /\ store' = delete_one(store, image_id)
    /\ LET deleted_count == Len(store) - Len(delete_one(store, image_id))
       IN  /\ ops' = [ops EXCEPT ![p] = [NoOps EXCEPT !.deleted = deleted_count]]
           /\ resp' = [resp EXCEPT ![p] =
                  IF deleted_count = 0
                  THEN handler_except(HTTPException(404, "Image not found", <<>>))
                  ELSE [NoResp EXCEPT !.status_code = 200, !.status = "deleted",
                                      !.detail = "Image link deleted successfully"]]
    /\ pc' = [pc EXCEPT ![p] = "done"]
    /\ UNCHANGED <<loc, last, nextId, clock, sim>>

\* the response reaches the client; the slot is free for the next request.
\* A client that sends its requests one after the other remembers the last one.
Return(p, remember) ==
    /\ pc[p] = "done"
    /\ last' = IF remember
               THEN [req |-> req[p], resp |-> resp[p], ops |-> ops[p],
                     urls |-> IF req[p].op = "link" /\ resp[p].status_code = 200
                              THEN [last.urls EXCEPT ![Uploads[req[p].upload].sha256] =
                                        req[p].url]
                              ELSE last.urls]
               ELSE last
    /\ pc' = [pc EXCEPT ![p] = "idle"]
    /\ req' = [req EXCEPT ![p] = NoReq]
    /\ loc' = [loc EXCEPT ![p] = NoLoc]
    /\ ops' = [ops EXCEPT ![p] = NoOps]
    /\ resp' = [resp EXCEPT ![p] = NoResp]
    /\ UNCHANGED <<store, nextId, clock, calls, sim>>

Next ==
    \/ \E p \in Procs, f \in UploadNames, u \in Urls : link_validate(p, f, u)
    \/ \E p \in Procs : link_find_one(p)
    \/ \E p \in Procs : link_update_one(p)
    \/ \E p \in Procs : link_insert_one(p)
    \/ \E p \in Procs, f \in UploadNames, t \in Thresholds : scan_validate(p, f, t)
    \/ \E p \in Procs : scan_find(p)
    \/ \E p \in Procs, i \in ImageIds : delete_stored_image(p, i)
    \/ \E p \in Procs : Return(p, FALSE)

Spec == Init /\ [][Next]_vars

\* one client: a request is sent only when no other is in flight
AllIdle == \A q \in Procs : pc[q] = "idle"

NextSeq ==
    \/ \E p \in Procs, f \in UploadNames, u \in Urls : AllIdle /\ link_validate(p, f, u)
    \/ \E p \in Procs : link_find_one(p)
    \/ \E p \in Procs : link_update_one(p)
    \/ \E p \in Procs : link_insert_one(p)
    \/ \E p \in Procs, f \in UploadNames, t \in Thresholds : AllIdle /\ scan_validate(p, f, t)
    \/ \E p \in Procs : scan_find(p)
    \/ \E p \in Procs, i \in ImageIds : AllIdle /\ delete_stored_image(p, i)
    \/ \E p \in Procs : Return(p, TRUE)

SpecSeq == Init /\ [][NextSeq]_vars

(***************************************************************************)
(* calculate_similarity on its own: the two hash codes are any strings, as *)
(* the method accepts any; the call is made in both argument orders.       *)
(***************************************************************************)
\* hexadecimal digits in both cases, a letter that is no digit, and the characters
\* int(s, 16) treats specially
Alphabet == {"0", "f", "F", "g", " ", "-", "_", "x"}

ShortCodes == UNION {[1..k -> Alphabet] : k \in 0..MaxLen}

\* codes as compute_hashes produces them
LongCodes == {Chars("ffffffffffffffff"), Chars("efffffffffffffff"),
              Chars("0000000000000000")}

HashCodes == ShortCodes \cup LongCodes

InitSim ==
    /\ store = <<>>
    /\ pc = [p \in Procs |-> "idle"]
    /\ req = [p \in Procs |-> NoReq]
    /\ loc = [p \in Procs |-> NoLoc]
    /\ ops = [p \in Procs |-> NoOps]
    /\ resp = [p \in Procs |-> NoResp]
    /\ last = NoLast
    /\ nextId = 1
    /\ clock = 1
    /\ calls = [link |-> 0, scan |-> 0, delete |-> 0]
    /\ sim \in {[NoSim EXCEPT !.hash1 = a, !.hash2 = b] : a, b \in HashCodes}

\* image_processor.calculate_similarity(hash1, hash2)
call_similarity ==
    /\ sim.distance = -1
    /\ sim' = [sim EXCEPT !.distance = calculate_similarity(sim.hash1, sim.hash2)]
    /\ UNCHANGED <<store, pc, req, loc, ops, resp, last, nextId, clock, calls>>

\* image_processor.calculate_similarity(hash2, hash1)
call_similarity_reversed ==
    /\ sim.distance # -1 /\ sim.reverse = -1
    /\ sim' = [sim EXCEPT !.reverse = calculate_similarity(sim.hash2, sim.hash1)]
    /\ UNCHANGED <<store, pc, req, loc, ops, resp, last, nextId, clock, calls>>

NextSim == call_similarity \/ call_similarity_reversed

SpecSim == InitSim /\ [][NextSim]_vars

TypeOK ==
    /\ Len(store) <= MaxCalls
    /\ \A p \in Procs : pc[p] \in {"idle", "link_find_one", "link_update_one",
                                   "link_insert_one", "scan_find", "done"}
    /\ Started \in 0..MaxCalls

(***************************************************************************)
(* Properties.                                                             *)
(***************************************************************************)
Sha(f) == Uploads[f].sha256

\* the bytes are within the size ceiling, of a supported type, and decode
ValidImage(f) ==
    /\ Uploads[f].len <= max_file_size
    /\ Uploads[f].mime \in allowed_mime_types
    /\ Uploads[f].decodes

\* the bytes reach the type check or the decoder and fail there
NotAnImage(f) ==
    /\ Uploads[f].len <= max_file_size
    /\ (Uploads[f].mime \notin allowed_mime_types \/ ~Uploads[f].decodes)

RecordsOf(docs, f) == Matching(docs, "file_hash", Sha(f))

Fingerprints(doc) ==
    [ahash |-> doc.ahash, phash |-> doc.phash, dhash |-> doc.dhash, whash |-> doc.whash]

Succeeded(p) == pc[p] = "done" /\ resp[p].status_code = 200

\* slot p takes a step of a request of kind op
Arrives(p, op) == pc[p] = "idle" /\ pc'[p] # "idle" /\ req'[p].op = op

(* C1: in every reachable state, under any interleaving of link, scan and  *)
(* delete requests, no two stored records have the same file_hash.         *)
C1_UniqueChecksum ==
    \A i, j \in 1..Len(store) : i # j => store[i].file_hash # store[j].file_hash

(* C2: for valid bytes b with no stored record of b's checksum, two link   *)
(* calls on b one after the other with urls u1 then u2: the first returns  *)
(* "created" with a new image_id, the second "updated" with the same       *)
(* image_id; afterwards the store holds exactly one record for b, its url  *)
(* is u2 and its fingerprints are those the first call wrote.              *)
C2_LinkTwice ==
    \A p \in Procs :
        (pc[p] = "done" /\ req[p].op = "link" /\ ValidImage(req[p].upload)) =>
            LET f == req[p].upload
                recs == RecordsOf(store, f)
            IN  /\ ops[p].present = 0 =>
                      /\ resp[p].status_code = 200 /\ resp[p].status = "created"
                      /\ Cardinality(recs) = 1
                      /\ \A i \in 1..Len(store) :
                             (store[i].id = resp[p].image_id) <=> (i \in recs)
                      /\ \A i \in recs : store[i].url = req[p].url
                /\ (last.req.op = "link" /\ last.req.upload = f /\ last.ops.present = 0) =>
                      /\ last.resp.status = "created"
                      /\ resp[p].status_code = 200 /\ resp[p].status = "updated"
                      /\ resp[p].image_id = last.resp.image_id
                      /\ resp[p].url = req[p].url
                      /\ Cardinality(recs) = 1
                      /\ \A i \in recs :
                             /\ store[i].id = last.resp.image_id
                             /\ store[i].url = req[p].url
                             /\ Fingerprints(store[i]) = Fingerprints(last.ops.doc)
                             /\ Fingerprints(store[i]) = compute_hashes(f)

C2_Witness ==
    \E p \in Procs :
        /\ pc[p] = "done" /\ req[p].op = "link" /\ resp[p].status = "updated"
        /\ last.req.op = "link" /\ last.req.upload = req[p].upload
        /\ last.ops.present = 0 /\ last.req.url = "u1" /\ req[p].url = "u2"

\* a scan of f with a threshold >= 0 has returned, the store holds the record of f
\* and a record of other bytes
ScannedAmongTwo(p) ==
    /\ pc[p] = "done" /\ req[p].op = "scan" /\ ValidImage(req[p].upload)
    /\ req[p].threshold >= 0
    /\ RecordsOf(store, req[p].upload) # {}
    /\ \E i \in 1..Len(store) : store[i].file_hash # Sha(req[p].upload)

\* positions of the records that share a hash code of some algorithm with upload f
SharingAHash(docs, f) ==
    {i \in 1..Len(docs) : \E a \in AlgorithmSet : docs[i][a] = compute_hashes(f)[a]}

(* C3 as stated: after linking two different images, a scan of a           *)
(* byte-identical copy of either with a threshold >= 0 returns match_found *)
(* with distance 0 and the id of the record created for that same image,   *)
(* also when the fingerprints of the two images coincide.                  *)
C3_ScanReturnsOwnRecord ==
    \A p \in Procs :
        ScannedAmongTwo(p) =>
            /\ resp[p].status = "match_found"
            /\ resp[p].match.distance = 0
            /\ \A i \in RecordsOf(store, req[p].upload) : resp[p].match.id = store[i].id

(* C3 amended: such a scan returns match_found with distance 0, and the    *)
(* matched id is that of the first stored record, in fetch order, that     *)
(* shares a hash code of some algorithm with the scanned image: the        *)
(* image's own record when no earlier record shares one.                   *)
C3_ScanReturnsFirstSharing ==
    \A p \in Procs :
        ScannedAmongTwo(p) =>
            LET sharing == SharingAHash(store, req[p].upload)
                own == RecordsOf(store, req[p].upload)
            IN  /\ resp[p].status = "match_found"
                /\ resp[p].match.distance = 0
                /\ own \subseteq sharing
                /\ resp[p].match.id = store[MinOf(sharing)].id
                /\ (\A i \in sharing : \E j \in own : j <= i) =>
                       \A j \in own : resp[p].match.id = store[j].id

C3_Witness ==
    \E p \in Procs :
        /\ ScannedAmongTwo(p)
        /\ Len(store) = 2
        /\ store[2].file_hash = Sha(req[p].upload)
        /\ resp[p].status = "match_found"
        /\ resp[p].match.id = store[1].id

\* the smallest per-candidate minimum distance over the fetched documents
GlobalBest(docs, query_hashes) ==
    MinOf({min_distance(distances(query_hashes, docs[i])) : i \in 1..Len(docs)})

ScanDecision(docs, query_hashes, threshold, r) ==
    /\ r.status \in {"match_found", "no_match"}
    /\ (r.status = "match_found") <=>
           (docs # <<>> /\ GlobalBest(docs, query_hashes) <= threshold)
    /\ r.status = "match_found" =>
           /\ r.match.distance = GlobalBest(docs, query_hashes)
           /\ \E i \in 1..Len(docs) :
                  /\ docs[i].id = r.match.id
                  /\ min_distance(distances(query_hashes, docs[i])) =
                         GlobalBest(docs, query_hashes)

(* C4: for every store content and threshold, scan returns match_found     *)
(* exactly when the smallest per-candidate minimum distance over the       *)
(* fetched records is <= threshold (inclusive), and the reported match is  *)
(* a record at that global smallest distance: the filtering loop agrees    *)
(* with selecting the global best first and comparing it afterwards.       *)
C4_ThresholdOnGlobalBest ==
    [][\A p \in Procs :
          (pc[p] = "scan_find" /\ pc'[p] = "done") =>
              ScanDecision(to_list(store, to_list_length),
                           compute_hashes(req[p].upload), req[p].threshold, resp'[p])]_vars

C4_Witness ==
    \E p \in Procs :
        /\ pc[p] = "done" /\ req[p].op = "scan"
        /\ resp[p].status = "match_found"
        /\ resp[p].match.distance = req[p].threshold
        /\ Len(store) = 2
        /\ store[2].id = resp[p].match.id
        /\ min_distance(distances(compute_hashes(req[p].upload), store[1])) =
               req[p].threshold + 1

(* C5: a scan of a valid image against an empty store returns no_match     *)
(* with total_stored_images = 0, for every threshold.                      *)
C5_EmptyStoreNoMatch ==
    [][\A p \in Procs :
          (pc[p] = "scan_find" /\ pc'[p] = "done" /\ store = <<>>) =>
              /\ resp'[p].status_code = 200
              /\ resp'[p].status = "no_match"
              /\ resp'[p].total_stored_images = 0
              /\ resp'[p].match = NoMatch
              /\ resp'[p].redirect_url = ""]_vars

C5_Witness ==
    \E p \in Procs :
        /\ pc[p] = "done" /\ req[p].op = "scan" /\ ValidImage(req[p].upload)
        /\ req[p].threshold = 1000
        /\ store = <<>>
        /\ resp[p].total_stored_images = 0

(* C6: a link or scan call whose bytes fail the type check or the decoder  *)
(* fails with status 400, never turned into 500 by the handler, and the    *)
(* store after the call is the store before it.                            *)
C6_InvalidImageRejected ==
    [][\A p \in Procs :
          ((Arrives(p, "link") \/ Arrives(p, "scan")) /\ NotAnImage(req'[p].upload)) =>
              /\ pc'[p] = "done"
              /\ resp'[p].status_code = 400
              /\ ops'[p].finds = 0 /\ ops'[p].inserted = 0
              /\ ops'[p].modified = 0 /\ ops'[p].deleted = 0
              /\ store' = store]_vars

C6_Witness ==
    \E p \in Procs :
        /\ pc[p] = "done" /\ req[p].op = "link"
        /\ Uploads[req[p].upload].mime \in allowed_mime_types
        /\ ~Uploads[req[p].upload].decodes
        /\ resp[p].status_code = 400
        /\ store # <<>>

(* C7: the size check comes first: a payload longer than the 10 MiB        *)
(* ceiling fails with 413 whatever its content, with no type check, no     *)
(* decoding and no store access; a payload of exactly the ceiling length   *)
(* is not rejected as too large.                                           *)
C7_SizeCheckFirst ==
    [][\A p \in Procs :
          (Arrives(p, "link") \/ Arrives(p, "scan")) =>
              /\ Uploads[req'[p].upload].len > max_file_size =>
                     /\ pc'[p] = "done"
                     /\ resp'[p].status_code = 413
                     /\ ops'[p].steps = <<"size">>
                     /\ ops'[p].finds = 0 /\ ops'[p].inserted = 0
                     /\ ops'[p].modified = 0 /\ ops'[p].deleted = 0
                     /\ store' = store
              /\ Uploads[req'[p].upload].len <= max_file_size =>
                     /\ resp'[p].status_code # 413
                     /\ Len(ops'[p].steps) >= 2]_vars

C7_Witness ==
    \E p \in Procs :
        /\ pc[p] = "done" /\ req[p].op = "link"
        /\ Uploads[req[p].upload].len = max_file_size + 1
        /\ resp[p].status_code = 413
        /\ \E i \in 1..Len(store) : store[i].file_size = max_file_size

(* C8: deleting the id returned by a just-completed "created" link call    *)
(* returns 200 and removes that record; a second delete of the same id,    *)
(* and a delete of an id no record has, return 404 and leave the store     *)
(* unchanged.                                                              *)
C8_DeleteOnce ==
    [][\A p \in Procs :
          Arrives(p, "delete") =>
              LET id == req'[p].image_id
                  held == Matching(store, "id", id)
              IN  /\ pc'[p] = "done"
                  /\ (last.req.op = "link" /\ last.resp.status = "created"
                          /\ last.resp.image_id = id) =>
                         /\ resp'[p].status_code = 200
                         /\ Cardinality(held) = 1
                         /\ Matching(store', "id", id) = {}
                         /\ \A i \in held :
                                store' = SubSeq(store, 1, i - 1) \o
                                         SubSeq(store, i + 1, Len(store))
                  /\ (last.req.op = "delete" /\ last.resp.status_code = 200
                          /\ last.req.image_id = id) =>
                         /\ resp'[p].status_code = 404
                         /\ store' = store
                  /\ held = {} =>
                         /\ resp'[p].status_code = 404
                         /\ store' = store]_vars

C8_Witness ==
    \E p \in Procs :
        /\ pc[p] = "done" /\ req[p].op = "delete"
        /\ resp[p].status_code = 404
        /\ last.req.op = "delete" /\ last.req.image_id = req[p].image_id
        /\ last.resp.status_code = 200

(* C9: every link call that returns successfully has performed exactly one *)
(* record write, one insert (created) or one update of an existing record  *)
(* (updated), never both and never none, under any interleaving with other *)
(* link and delete requests.                                               *)
C9_OneWritePerLink ==
    \A p \in Procs :
        (Succeeded(p) /\ req[p].op = "link") =>
            /\ resp[p].status \in {"created", "updated"}
            /\ resp[p].status = "created" => (ops[p].inserted = 1 /\ ops[p].modified = 0)
            /\ resp[p].status = "updated" => (ops[p].inserted = 0 /\ ops[p].modified = 1)

(* C10: a scan call never writes to the store: whether it ends in          *)
(* match_found, no_match or an error, every step it takes leaves the       *)
(* collection as it was, also while link and delete requests are running.  *)
C10_ScanWritesNothing ==
    [][\A p \in Procs :
          (req'[p].op = "scan" /\ pc'[p] # pc[p]) =>
              /\ store' = store
              /\ ops'[p].inserted = 0 /\ ops'[p].modified = 0 /\ ops'[p].deleted = 0]_vars

C10_Witness ==
    \E p, q \in Procs :
        /\ pc[p] = "done" /\ req[p].op = "scan" /\ resp[p].status = "match_found"
        /\ pc[q] = "link_update_one"

\* the fields of a document other than url and updated_at
Permanent(doc) == [doc EXCEPT !.url = "", !.updated_at = 0]

(* C11: a record keeps its id, file_hash, four fingerprints, filename,     *)
(* content_type, file_size, width, height and created_at for as long as it *)
(* exists: in every step of any link, scan or delete call, a document that *)
(* is in the store before and after the step differs at most in url and    *)
(* updated_at, and a step changes at most one document.                    *)
C11_RecordImmutable ==
    [][/\ \A i \in 1..Len(store), j \in 1..Len(store') :
              store[i].id = store'[j].id => Permanent(store[i]) = Permanent(store'[j])
       /\ Cardinality({i \in 1..Len(store) :
                          \E j \in 1..Len(store') :
                              store[i].id = store'[j].id /\ store[i] # store'[j]}) <= 1]_vars

C11_Witness ==
    \E p \in Procs, i \in 1..Len(store) :
        /\ pc[p] = "done" /\ req[p].op = "link" /\ resp[p].status = "updated"
        /\ ops[p].modified = 1
        /\ store[i].id = resp[p].image_id
        /\ store[i].url = "u2" /\ store[i].updated_at > store[i].created_at

\* the call of calculate_similarity(hash1, hash2) has returned
Compared == sim.distance # -1

\* a hexadecimal encoding: one hexadecimal digit per character, at least one
PlainHex(h) == h # <<>> /\ \A i \in 1..Len(h) : h[i] \in HexDigits

\* no character of h is a hexadecimal digit
NoDigit(h) == \A i \in 1..Len(h) : h[i] \notin HexDigits

\* bits in which two values of four bits differ
NibbleDiff(d, e) ==
    (IF ((d \div 8) % 2) # ((e \div 8) % 2) THEN 1 ELSE 0) +
    (IF ((d \div 4) % 2) # ((e \div 4) % 2) THEN 1 ELSE 0) +
    (IF ((d \div 2) % 2) # ((e \div 2) % 2) THEN 1 ELSE 0) +
    (IF (d % 2) # (e % 2) THEN 1 ELSE 0)

\* differing bit positions of two hexadecimal encodings of one length
RECURSIVE BitDiff(_, _, _)
BitDiff(a, b, i) ==
    IF i > Len(a) THEN 0
    ELSE NibbleDiff(HexVal(a[i]), HexVal(b[i])) + BitDiff(a, b, i + 1)

\* the same bits: the same length and, at every position, the same character
\* or two hexadecimal digits of the same value
BitIdentical(a, b) ==
    /\ Len(a) = Len(b)
    /\ \A i \in 1..Len(a) :
           \/ a[i] = b[i]
           \/ a[i] \in HexDigits /\ b[i] \in HexDigits /\ HexVal(a[i]) = HexVal(b[i])

(* C12 as stated: the distance of two hash codes is 0 exactly when they    *)
(* are bit-identical; in particular the distance of x to x is 0 for every  *)
(* string x, also one that is not valid hexadecimal.                       *)
C12_ZeroIffIdentical ==
    Compared => ((sim.distance = 0) <=> BitIdentical(sim.hash1, sim.hash2))

(* C12 amended: for two hexadecimal encodings the distance is 0 exactly    *)
(* when they are bit-identical; the distance of x to x is 0 for every x    *)
(* that int(x, 16) accepts, among them every hexadecimal encoding, and the *)
(* sentinel 64 for every x it rejects, among them the empty string and     *)
(* every string without a hexadecimal digit.                               *)
C12_ZeroIffSameBits ==
    Compared =>
        /\ (PlainHex(sim.hash1) /\ PlainHex(sim.hash2)) =>
               ((sim.distance = 0) <=> BitIdentical(sim.hash1, sim.hash2))
        /\ sim.hash1 = sim.hash2 =>
               /\ sim.distance = IF int16(sim.hash1).ValueError THEN 64 ELSE 0
               /\ PlainHex(sim.hash1) => sim.distance = 0
               /\ NoDigit(sim.hash1) => sim.distance = 64

C12_Witness ==
    /\ Compared
    /\ sim.hash1 = <<"g", "g">> /\ sim.hash2 = <<"g", "g">>
    /\ sim.distance = 64

(* C13: the distance is symmetric: for every pair of strings x and y, of   *)
(* equal or different lengths, parseable or not, the call with the         *)
(* arguments exchanged returns what the first call returned.               *)
C13_Symmetric ==
    sim.reverse # -1 => sim.reverse = sim.distance

C13_Witness ==
    /\ sim.hash1 = <<"-", "f">> /\ sim.hash2 = <<"0", "f">>
    /\ sim.distance = 1 /\ sim.reverse = 1

(* C14: calculate_similarity returns the sentinel 64 whenever the two      *)
(* codes differ in length and whenever either of them is not a hexadecimal *)
(* encoding; in every other case it returns the number of bit positions in *)
(* which the two codes, decoded to four bits per character, differ.        *)
C14_SentinelOrBitCount ==
    Compared =>
        sim.distance =
            IF Len(sim.hash1) # Len(sim.hash2) \/ ~PlainHex(sim.hash1) \/ ~PlainHex(sim.hash2)
            THEN 64
            ELSE BitDiff(sim.hash1, sim.hash2, 1)

\* the bit-length of the codes compared: four bits per character of the longer one
BitLength == 4 * Max2(Len(sim.hash1), Len(sim.hash2))

(* C18 as stated: for every pair of strings the distance is non-negative   *)
(* and never larger than the bit-length of the codes compared, also when   *)
(* the sentinel is returned for codes shorter than 16 characters.          *)
C18_BoundedByBitLength ==
    Compared => (sim.distance >= 0 /\ sim.distance <= BitLength)

(* C18 amended: the distance is non-negative; for two codes of one length  *)
(* that int(x, 16) accepts it is at most four times that length; in every  *)
(* other case it is the sentinel 64 whatever the lengths, so it is bounded *)
(* by the bit-length of the codes only from 16 characters on.              *)
C18_BoundedOrSentinel ==
    Compared =>
        /\ sim.distance >= 0
        /\ IF Len(sim.hash1) = Len(sim.hash2)
                /\ ~int16(sim.hash1).ValueError /\ ~int16(sim.hash2).ValueError
           THEN sim.distance <= 4 * Len(sim.hash1)
           ELSE sim.distance = 64
        /\ (PlainHex(sim.hash1) /\ PlainHex(sim.hash2) /\ Len(sim.hash1) = Len(sim.hash2)) =>
               sim.distance <= BitLength
        /\ (Len(sim.hash1) >= 16 /\ Len(sim.hash2) >= 16) => sim.distance <= BitLength

C18_Witness ==
    /\ Compared
    /\ sim.hash1 = <<"f">> /\ sim.hash2 = <<"f", "f">>
    /\ sim.distance = 64 /\ BitLength = 8

\* the scan in slot p has returned match_found
MatchFound(p) ==
    pc[p] = "done" /\ req[p].op = "scan" /\ resp[p].status = "match_found"

(* C15: in every match_found response similarity_percentage is             *)
(* max(0, 100 - 10 * distance) for the distance of the same match: it lies *)
(* in 0..100, is 100 only at distance 0 and is 0 from distance 10 on.      *)
C15_SimilarityPercentage ==
    \A p \in Procs :
        MatchFound(p) =>
            /\ resp[p].match.distance >= 0
            /\ resp[p].match.similarity_percentage =
                   (IF resp[p].match.distance >= 10 THEN 0
                    ELSE 100 - 10 * resp[p].match.distance)
            /\ resp[p].match.similarity_percentage \in 0..100
            /\ (resp[p].match.similarity_percentage = 100) <=> (resp[p].match.distance = 0)

C15_Witness ==
    \E p \in Procs :
        /\ MatchFound(p)
        /\ resp[p].match.distance = 12
        /\ resp[p].match.similarity_percentage = 0
        /\ resp[p].match.algorithm_used = "ahash"

\* the link requests in slots p and q carry the same bytes, new to the store when
\* each arrived, and each has read "not found" and gone on to its insert
BothNotFound(p, q) ==
    /\ p # q
    /\ req[p].op = "link" /\ req[q].op = "link" /\ req[p].upload = req[q].upload
    /\ ops[p].present = 0 /\ ops[q].present = 0
    /\ pc[p] \in {"link_insert_one", "done"} /\ loc[p].image_link # NoDoc
    /\ pc[q] \in {"link_insert_one", "done"} /\ loc[q].image_link # NoDoc

(* C16: two overlapping link requests for the same new checksum that both  *)
(* read "not found" both insert: the store accepts both inserts, each call *)
(* returns "created", the two image_ids differ, and unless a delete        *)
(* removes one, two records with the same checksum are in the store.       *)
C16_BothInsert ==
    \A p, q \in Procs :
        BothNotFound(p, q) =>
            /\ loc[p].image_link.id # loc[q].image_link.id
            /\ pc[p] = "done" =>
                   /\ resp[p].status_code = 200 /\ resp[p].status = "created"
                   /\ resp[p].image_id = loc[p].image_link.id
                   /\ ops[p].inserted = 1
            /\ (pc[p] = "done" /\ pc[q] = "done" /\ calls.delete = 0) =>
                   \E i, j \in 1..Len(store) :
                       /\ i # j
                       /\ store[i].id = resp[p].image_id
                       /\ store[j].id = resp[q].image_id
                       /\ store[i].file_hash = Sha(req[p].upload)
                       /\ store[j].file_hash = Sha(req[p].upload)

C16_Witness ==
    \E p, q \in Procs :
        /\ BothNotFound(p, q)
        /\ pc[p] = "done" /\ pc[q] = "done"
        /\ resp[p].status = "created" /\ resp[q].status = "created"
        /\ Len(store) = 2 /\ store[1].file_hash = store[2].file_hash
        /\ store[1].id # store[2].id

\* positions of the fetched documents at minimum distance g
AtDistance(docs, query_hashes, g) ==
    {i \in 1..Len(docs) : min_distance(distances(query_hashes, docs[i])) = g}

\* response r reports stored document doc as its match
ReportsDoc(r, doc) ==
    /\ r.status = "match_found"
    /\ r.match.id = doc.id
    /\ r.match.url = doc.url
    /\ r.match.filename = doc.filename
    /\ r.match.created_at = doc.created_at

\* response r reports the first of the documents at distance g, when g is within
\* the threshold
FirstWins(docs, query_hashes, threshold, g, r) ==
    g <= threshold => ReportsDoc(r, docs[MinOf(AtDistance(docs, query_hashes, g))])

(* C17: when the smallest minimum distance over the fetched records is     *)
(* within the threshold, scan reports the first record, in the order the   *)
(* store returned them, that is at this distance: among several records at *)
(* the smallest distance a later one never replaces an earlier one.        *)
C17_FirstEncounteredWins ==
    [][\A p \in Procs :
          (pc[p] = "scan_find" /\ pc'[p] = "done" /\ store # <<>>) =>
              FirstWins(to_list(store, to_list_length), compute_hashes(req[p].upload),
                        req[p].threshold,
                        GlobalBest(to_list(store, to_list_length),
                                   compute_hashes(req[p].upload)),
                        resp'[p])]_vars

C17_Witness ==
    \E p \in Procs :
        /\ MatchFound(p)
        /\ Len(store) = 2
        /\ AtDistance(store, compute_hashes(req[p].upload), 1) = {1, 2}
        /\ resp[p].match.distance = 1
        /\ resp[p].match.id = store[1].id

(* C19: whenever a link call returns "updated" with image_id i and url u,  *)
(* a record with id i is in the store when the call returns and its url is *)
(* u, under every interleaving with other delete and link requests.        *)
C19_UpdatedRecordExists ==
    [][\A p \in Procs :
          (pc[p] = "link_update_one" /\ pc'[p] = "done" /\ resp'[p].status = "updated") =>
              \E i \in 1..Len(store') :
                  /\ store'[i].id = resp'[p].image_id
                  /\ store'[i].url = resp'[p].url]_vars

(* C20: in every match_found response redirect_url equals match.url, and   *)
(* it is the url the matched record holds in the store the scan fetched:   *)
(* after any sequence of completed link and delete calls this is the url   *)
(* of the most recent successful link call made with bytes of the matched  *)
(* record's checksum, never an earlier url that was overwritten.           *)
C20_RedirectToLatestUrl ==
    \A p \in Procs :
        MatchFound(p) =>
            /\ resp[p].redirect_url = resp[p].match.url
            /\ \E i \in 1..Len(store) :
                   /\ store[i].id = resp[p].match.id
                   /\ store[i].url = resp[p].match.url
                   /\ last.urls[store[i].file_hash] = resp[p].redirect_url

C20_Witness ==
    \E p \in Procs, i \in 1..Len(store) :
        /\ MatchFound(p)
        /\ store[i].id = resp[p].match.id
        /\ store[i].updated_at # 0
        /\ last.req.op = "link" /\ last.resp.status = "updated" /\ last.req.url = "u2"
        /\ resp[p].redirect_url = "u2"

====
